---------------------------- MODULE Spec2Model ----------------------------
(***************************************************************************)
(* CircularBuffer<T,S,IT> (src/CircularBuffer.tpp): a fixed-capacity ring  *)
(* buffer over an array `buffer` of S elements, with two pointers `head`   *)
(* and `tail` into it and an element counter `count`.                      *)
(*                                                                         *)
(* Pointers are modelled by their offset from `buffer`: head = 0 is        *)
(* `buffer`, head = capacity is the one-past-the-end pointer               *)
(* `buffer + capacity`, and -1 is the value `--tail` takes from `buffer`   *)
(* before the code's `tail < buffer` test puts it back to the last slot.   *)
(***************************************************************************)
EXTENDS Integers, Sequences, FiniteSets

\* Largest capacity S the buffer is instantiated with (S ranges over 1..MaxCapacity).
MaxCapacity == 4

\* Element values are 1..MaxValue.
MaxValue == 2

\* IT is instantiated as an 8-bit unsigned integer: arithmetic in IT is modulo 2^8.
IndexMod == 256

Values == 1..MaxValue

Capacities == 1..MaxCapacity

\* Conversion functions handed to copyToArray(R* dest, R (&convertFn)(const T&)).
ConvertFns == { [x \in Values |-> k * x + 10] : k \in {1, 3} }

VARIABLES
    capacity,   \* the template parameter S (static constexpr capacity)
    buffer,     \* T buffer[S], a function 0..capacity-1 -> Values
    head,       \* T* head, as an offset from buffer
    tail,       \* T* tail, as an offset from buffer
    count,      \* IT count
    op,         \* the member function called last ("new" after construction)
    arg,        \* its argument (0 when it takes none)
    ret,        \* what it returned ("void" when it returns nothing)
    tick,       \* alternates on every call, so that no call is a stuttering step
    pcount,     \* count as it was when the last call started
    pcontents,  \* the logical contents as they were when the last call started
    fresh,      \* only push has mutated the buffer since construction, at most S times
    pushes,     \* while fresh: the values pushed so far, in order
    deque,      \* a bounded deque of length <= S driven by the same calls
    paired      \* the last call was pop right after a push, or shift right after an
                \* unshift, into a buffer that was not full

vars == <<capacity, buffer, head, tail, count, op, arg, ret, tick, pcount, pcontents,
          fresh, pushes, deque, paired>>

\* The offsets of the elements of buffer.
Slots == 0..(capacity - 1)

\* Arguments for operator[]: in range, and out of range even when full.
Indices == 0..(capacity + 1)

\* The object as a method leaves it, with the value the method returns.
Result(b, h, t, c, r) == [buffer |-> b, head |-> h, tail |-> t, count |-> c, ret |-> r]

\* A const method: the object is as it was.
Const_ResetsCount(r) == Result(buffer, head, tail, 0, r)

Const(r) == Result(buffer, head, tail, count, r)

----------------------------------------------------------------------------
\* bool unshift(T value)
unshift_AdvancesHeadWhenFull(value) ==
    LET h0 == IF head = 0 THEN capacity ELSE head
        h  == h0 - 1
        b  == [buffer EXCEPT ![h] = value]
    IN  IF count = capacity
        THEN Result(b, IF h + 1 = capacity THEN 0 ELSE h + 1, tail, count, FALSE)
        ELSE Result(b, h, IF count = 0 THEN h ELSE tail, count + 1, TRUE)

unshift_WritesBeforeRetreat(value) ==
    LET h0 == IF head = 0 THEN capacity ELSE head
        h  == h0 - 1
        b  == [buffer EXCEPT ![h0 % capacity] = value]
    IN  IF count = capacity
        THEN Result(b, h, IF tail = 0 THEN capacity - 1 ELSE tail - 1, count, FALSE)
        ELSE Result(b, h, IF count = 0 THEN h ELSE tail, count + 1, TRUE)

unshift_KeepsTailOnFirst(value) ==
    LET h0 == IF head = 0 THEN capacity ELSE head
        h  == h0 - 1
        b  == [buffer EXCEPT ![h] = value]
    IN  IF count = capacity
        THEN Result(b, h, IF tail = 0 THEN capacity - 1 ELSE tail - 1, count, FALSE)
        ELSE Result(b, h, tail, count + 1, TRUE)

unshift(value) ==
    LET h0 == IF head = 0 THEN capacity ELSE head       \* if (head == buffer) head = buffer + capacity
        h  == h0 - 1                                     \* --head
        b  == [buffer EXCEPT ![h] = value]               \* *head = value
    IN  IF count = capacity
        THEN Result(b, h, IF tail = 0 THEN capacity - 1 ELSE tail - 1, count, FALSE)
        ELSE Result(b, h, IF count = 0 THEN h ELSE tail, count + 1, TRUE)

\* bool push(T value)
push_KeepsHeadOnFirst(value) ==
    LET t1 == tail + 1
        t  == IF t1 = capacity THEN 0 ELSE t1
        b  == [buffer EXCEPT ![t] = value]
    IN  IF count = capacity
        THEN Result(b, IF head + 1 = capacity THEN 0 ELSE head + 1, t, count, FALSE)
        ELSE Result(b, head, t, count + 1, TRUE)

push_AlwaysTrue(value) ==
    LET t1 == tail + 1
        t  == IF t1 = capacity THEN 0 ELSE t1
        b  == [buffer EXCEPT ![t] = value]
    IN  IF count = capacity
        THEN Result(b, IF head + 1 = capacity THEN 0 ELSE head + 1, t, count, TRUE)
        ELSE Result(b, IF count = 0 THEN t ELSE head, t, count + 1, TRUE)

push_KeepsHeadWhenFull(value) ==
    LET t1 == tail + 1
        t  == IF t1 = capacity THEN 0 ELSE t1
        b  == [buffer EXCEPT ![t] = value]
    IN  IF count = capacity
        THEN Result(b, head, t, count, FALSE)
        ELSE Result(b, IF count = 0 THEN t ELSE head, t, count + 1, TRUE)

push_CountsPastCapacity(value) ==
    LET t1 == tail + 1
        t  == IF t1 = capacity THEN 0 ELSE t1
        b  == [buffer EXCEPT ![t] = value]
    IN  IF count = capacity
        THEN Result(b, IF head + 1 = capacity THEN 0 ELSE head + 1, t, (count + 1) % IndexMod, FALSE)
        ELSE Result(b, IF count = 0 THEN t ELSE head, t, count + 1, TRUE)

push(value) ==
    LET t1 == tail + 1                                   \* ++tail
        t  == IF t1 = capacity THEN 0 ELSE t1            \* == buffer + capacity: tail = buffer
        b  == [buffer EXCEPT ![t] = value]               \* *tail = value
    IN  IF count = capacity
        THEN Result(b, IF head + 1 = capacity THEN 0 ELSE head + 1, t, count, FALSE)
        ELSE Result(b, IF count = 0 THEN t ELSE head, t, count + 1, TRUE)

\* T&& shift()
shift_ReadsAfterAdvance ==
    IF count = 0
    THEN Const(buffer[head])
    ELSE LET h1 == head + 1
             h  == IF h1 >= capacity THEN 0 ELSE h1
         IN  Result(buffer, h, tail, count - 1, buffer[h])

shift_NoEmptyCheck ==
    LET h1 == head + 1
    IN  Result(buffer, IF h1 >= capacity THEN 0 ELSE h1, tail,
               (count - 1) % IndexMod, buffer[head])

shift_WrapsLate ==
    IF count = 0
    THEN Const(buffer[head])
    ELSE LET h1 == head + 1
         IN  Result(buffer, IF h1 > capacity THEN 0 ELSE h1, tail, count - 1, buffer[head])

shift ==
    IF count = 0
    THEN Const(buffer[head])                             \* return std::move(*head)
    ELSE LET h1 == head + 1                              \* result = *(head++)
         IN  Result(buffer, IF h1 >= capacity THEN 0 ELSE h1, tail, count - 1, buffer[head])

\* void shiftNoReturn()
shiftNoReturn_WrapsEarly ==
    IF count = 0
    THEN Const("void")
    ELSE LET h1 == head + 1
         IN  Result(buffer, IF h1 >= capacity - 1 THEN 0 ELSE h1, tail, count - 1, "void")

shiftNoReturn ==
    IF count = 0
    THEN Const("void")
    ELSE LET h1 == head + 1                              \* ++head
         IN  Result(buffer, IF h1 >= capacity THEN 0 ELSE h1, tail, count - 1, "void")

\* T&& pop()
pop_WrapsAtFirstSlot ==
    IF count = 0
    THEN Const(buffer[tail])
    ELSE LET t1 == tail - 1
         IN  Result(buffer, head, IF t1 <= 0 THEN capacity - 1 ELSE t1, count - 1, buffer[tail])

pop_ReadsAfterRetreat ==
    IF count = 0
    THEN Const(buffer[tail])
    ELSE LET t1 == tail - 1
             t  == IF t1 < 0 THEN capacity - 1 ELSE t1
         IN  Result(buffer, head, t, count - 1, buffer[t])

pop ==
    IF count = 0
    THEN Const(buffer[tail])                             \* return std::move(*tail)
    ELSE LET t1 == tail - 1                              \* result = *(tail--)
         IN  Result(buffer, head, IF t1 < 0 THEN capacity - 1 ELSE t1, count - 1, buffer[tail])

\* void popNoReturn()
popNoReturn_WrapsAtFirstSlot ==
    IF count = 0
    THEN Const("void")
    ELSE LET t1 == tail - 1
         IN  Result(buffer, head, IF t1 <= 0 THEN capacity - 1 ELSE t1, count - 1, "void")

popNoReturn_KeepsCount ==
    IF count = 0
    THEN Const("void")
    ELSE LET t1 == tail - 1
         IN  Result(buffer, head, IF t1 < 0 THEN capacity - 1 ELSE t1, count, "void")

popNoReturn ==
    IF count = 0
    THEN Const("void")
    ELSE LET t1 == tail - 1                              \* --tail
         IN  Result(buffer, head, IF t1 < 0 THEN capacity - 1 ELSE t1, count - 1, "void")

\* T& operator[](IT index), and its const overload: the slot the reference is to.
operatorIndex_OffByOne(index) ==
    IF index > count THEN tail ELSE (head + index) % capacity

operatorIndex(index) ==
    IF index >= count THEN tail ELSE (head + index) % capacity

\* IT size() const
size == count

\* IT available() const
available == (capacity - count) % IndexMod

\* bool isEmpty() const
isEmpty == count = 0

\* bool isFull() const
isFull == count = capacity

\* void clear()
clear_KeepsPointers == Result(buffer, head, tail, 0, "void")

clear_ErasesStorage == Result([s \in Slots |-> 1], 0, 0, 0, "void")

clear == Result(buffer, 0, 0, 0, "void")

\* void copyToArray(T* dest) const: dest is the sequence written to dest[0], dest[1], ...;
\* convertFn is applied to each element (the identity for the overload without one).
RECURSIVE copyFromHead(_, _, _)
copyFromHead(current, dest, convertFn) ==
    IF current < capacity /\ Len(dest) < count
    THEN copyFromHead(current + 1, Append(dest, convertFn[buffer[current]]), convertFn)
    ELSE dest

RECURSIVE copyToTail_StopsBeforeTail(_, _, _)
copyToTail_StopsBeforeTail(current, dest, convertFn) ==
    IF current < tail /\ Len(dest) < count
    THEN copyToTail_StopsBeforeTail(current + 1, Append(dest, convertFn[buffer[current]]), convertFn)
    ELSE dest

RECURSIVE copyToTail(_, _, _)
copyToTail(current, dest, convertFn) ==
    IF current <= tail /\ Len(dest) < count
    THEN copyToTail(current + 1, Append(dest, convertFn[buffer[current]]), convertFn)
    ELSE dest

Identity == [x \in Values |-> x]

copyToArray(convertFn) == copyToTail(0, copyFromHead(head, <<>>, convertFn), convertFn)

\* The logical contents, oldest first: element i+1 is what operator[](i) refers to.
Contents == [i \in 1..count |-> buffer[operatorIndex(i - 1)]]

----------------------------------------------------------------------------
\* constexpr CircularBuffer(): head(buffer), tail(buffer), count(0). The constructor
\* does not initialise the elements of buffer: they hold any values.
Init ==
    /\ capacity \in Capacities
    /\ buffer \in [Slots -> Values]
    /\ head = 0
    /\ tail = 0
    /\ count = 0
    /\ op = "new"
    /\ arg = 0
    /\ ret = "void"
    /\ tick = FALSE
    /\ pcount = 0
    /\ pcontents = <<>>
    /\ fresh = TRUE
    /\ pushes = <<>>
    /\ deque = <<>>
    /\ paired = FALSE

\* A call of member function `name` with argument a, whose outcome is r.
Call(name, a, r) ==
    /\ buffer' = r.buffer
    /\ head' = r.head
    /\ tail' = r.tail
    /\ count' = r.count
    /\ op' = name
    /\ arg' = a
    /\ ret' = r.ret
    /\ tick' = ~tick
    /\ pcount' = count
    /\ pcontents' = Contents
    /\ paired' = \/ name = "pop" /\ op = "push" /\ pcount < capacity
                 \/ name = "shift" /\ op = "unshift" /\ pcount < capacity
    /\ UNCHANGED capacity

\* The call mutates the buffer and is no push.
Stale == fresh' = FALSE /\ pushes' = <<>>

\* The deque follows the calls: an append or prepend at length S first drops the
\* opposite end, a removal from the empty deque does nothing, clear empties it.
Push ==
    \E value \in Values :
        /\ Call("push", value, push(value))
        /\ IF fresh /\ Len(pushes) < capacity
           THEN fresh' = TRUE /\ pushes' = Append(pushes, value)
           ELSE Stale
        /\ deque' = IF Len(deque) = capacity
                    THEN Append(Tail(deque), value)
                    ELSE Append(deque, value)

Unshift ==
    \E value \in Values :
        /\ Call("unshift", value, unshift(value))
        /\ Stale
        /\ deque' = IF Len(deque) = capacity
                    THEN <<value>> \o SubSeq(deque, 1, capacity - 1)
                    ELSE <<value>> \o deque

Shift ==
    /\ Call("shift", 0, shift)
    /\ Stale
    /\ deque' = IF deque = <<>> THEN deque ELSE Tail(deque)

ShiftNoReturn ==
    /\ Call("shiftNoReturn", 0, shiftNoReturn)
    /\ Stale
    /\ deque' = IF deque = <<>> THEN deque ELSE Tail(deque)

Pop ==
    /\ Call("pop", 0, pop)
    /\ Stale
    /\ deque' = IF deque = <<>> THEN deque ELSE SubSeq(deque, 1, Len(deque) - 1)

PopNoReturn ==
    /\ Call("popNoReturn", 0, popNoReturn)
    /\ Stale
    /\ deque' = IF deque = <<>> THEN deque ELSE SubSeq(deque, 1, Len(deque) - 1)

Clear ==
    /\ Call("clear", 0, clear)
    /\ Stale
    /\ deque' = <<>>

OperatorIndex ==
    \E index \in Indices :
        Call("operatorIndex", index, Const(buffer[operatorIndex(index)]))
        /\ UNCHANGED <<fresh, pushes, deque>>

Size == Call("size", 0, Const(size)) /\ UNCHANGED <<fresh, pushes, deque>>

Available == Call("available", 0, Const(available)) /\ UNCHANGED <<fresh, pushes, deque>>

IsEmpty == Call("isEmpty", 0, Const(isEmpty)) /\ UNCHANGED <<fresh, pushes, deque>>

IsFull == Call("isFull", 0, Const(isFull)) /\ UNCHANGED <<fresh, pushes, deque>>

CopyToArray ==
    Call("copyToArray", 0, Const(copyToArray(Identity))) /\ UNCHANGED <<fresh, pushes, deque>>

CopyToArrayConvert ==
    \E convertFn \in ConvertFns :
        Call("copyToArrayConvert", convertFn, Const(copyToArray(convertFn)))
        /\ UNCHANGED <<fresh, pushes, deque>>

Next ==
    \/ Push
    \/ Unshift
    \/ Shift
    \/ ShiftNoReturn
    \/ Pop
    \/ PopNoReturn
    \/ Clear
    \/ OperatorIndex
    \/ Size
    \/ Available
    \/ IsEmpty
    \/ IsFull
    \/ CopyToArray
    \/ CopyToArrayConvert

Spec == Init /\ [][Next]_vars

----------------------------------------------------------------------------
\* The state of the object: what a call may change.
object == <<buffer, head, tail, count>>

----------------------------------------------------------------------------
\* C1: from a default-constructed buffer, after k <= S calls of push and no other
\* mutating call, size() is k and operator[](i) is the (i+1)-th pushed value for
\* every 0 <= i < k.
C1_PushesInOrder ==
    fresh =>
        /\ size = Len(pushes)
        /\ \A i \in 0..(Len(pushes) - 1) : buffer[operatorIndex(i)] = pushes[i + 1]

\* S pushes have filled a fresh buffer of capacity S >= 3.
C1_Witness == fresh /\ op = "push" /\ Len(pushes) = capacity /\ capacity >= 3

\* C2: push returns true exactly when the buffer was not full before the call, and
\* then size() grows by one; when it was full, push returns false and size() stays S.
C2_PushReturn ==
    [][op' = "push" =>
        /\ ret' = (count # capacity)
        /\ count # capacity => size' = size + 1
        /\ count = capacity => size' = capacity]_vars

\* A push into a full buffer has returned false.
C2_Witness == op = "push" /\ pcount = capacity /\ ret = FALSE

\* C3: in a full state with contents e0, ..., e(S-1), push(v) leaves the contents
\* e1, ..., e(S-1), v: operator[](0) is the former second-oldest element and
\* operator[](S-1) is v.
C3_PushEvictsOldest ==
    [][op' = "push" /\ count = capacity =>
        /\ Contents' = Append(Tail(Contents), arg')
        /\ capacity > 1 => buffer'[operatorIndex(0)'] = Contents[2]
        /\ buffer'[operatorIndex(capacity - 1)'] = arg']_vars

\* A push into a full buffer of capacity >= 3 whose oldest element was not in slot 0.
C3_Witness == op = "push" /\ pcount = capacity /\ capacity >= 3 /\ head > 1

\* C4: with contents e0..e(n-1), unshift(v) makes v the new operator[](0): not full,
\* it returns true and the contents become v, e0, ..., e(n-1); full, it returns false
\* and the contents become v, e0, ..., e(S-2).
C4_UnshiftContents ==
    [][op' = "unshift" =>
        /\ buffer'[operatorIndex(0)'] = arg'
        /\ count # capacity =>
              ret' = TRUE /\ Contents' = <<arg'>> \o Contents
        /\ count = capacity =>
              ret' = FALSE /\ Contents' = <<arg'>> \o SubSeq(Contents, 1, capacity - 1)]_vars

\* An unshift into a full buffer of capacity >= 3 has returned false.
C4_Witness == op = "unshift" /\ pcount = capacity /\ ret = FALSE /\ capacity >= 3

\* C5: in a non-empty state with contents e0, ..., e(n-1), shift returns e0,
\* decrements size() and leaves the contents e1, ..., e(n-1).
C5_ShiftContents ==
    [][op' = "shift" /\ count > 0 =>
        /\ ret' = Contents[1]
        /\ size' = size - 1
        /\ Contents' = Tail(Contents)
        /\ count > 1 => buffer'[operatorIndex(0)'] = Contents[2]]_vars

\* A shift of a buffer holding at least two elements has moved head from the last
\* slot round to slot 0.
C5_Witness == op = "shift" /\ pcount >= 2 /\ head = 0 /\ capacity >= 3

\* C6: in a non-empty state with contents e0, ..., e(n-1), pop returns e(n-1),
\* decrements size() and leaves the contents e0, ..., e(n-2); tail goes one slot
\* back, from slot 0 round to slot S-1.
C6_PopContents ==
    [][op' = "pop" /\ count > 0 =>
        /\ ret' = Contents[count]
        /\ size' = size - 1
        /\ Contents' = SubSeq(Contents, 1, count - 1)
        /\ tail' = IF tail = 0 THEN capacity - 1 ELSE tail - 1]_vars

\* A pop of a buffer holding at least two elements has moved tail from slot 0 round
\* to the last slot.
C6_Witness == op = "pop" /\ pcount >= 2 /\ tail = capacity - 1 /\ capacity >= 3

\* C7: on an empty buffer, shift returns the value in the slot head points at and
\* pop the value in the slot tail points at, and head, tail, count and the storage
\* are unchanged.
C7_EmptyRemove ==
    [][/\ op' = "shift" /\ count = 0 => ret' = buffer[head] /\ UNCHANGED object
       /\ op' = "pop" /\ count = 0 => ret' = buffer[tail] /\ UNCHANGED object]_vars

\* A pop of an empty buffer whose head and tail point at different slots holding
\* different values.
C7_Witness ==
    op = "pop" /\ pcount = 0 /\ head # tail /\ buffer[head] # buffer[tail]

\* C8: operator[](index) with index >= count returns the element in the slot tail
\* points at, which is the newest element when the buffer is not empty; with
\* index < count it returns the element in slot (head + index) mod S.
C8_OperatorIndex ==
    op = "operatorIndex" =>
        /\ arg >= count => ret = buffer[tail]
        /\ arg >= count /\ count > 0 => ret = Contents[count]
        /\ arg < count => ret = buffer[(head + arg) % capacity]

\* operator[] was called with index = count on a buffer that is neither empty nor
\* full and whose newest element differs from the element in the slot after it.
C8_Witness ==
    /\ op = "operatorIndex" /\ arg = count /\ count > 0 /\ count < capacity
    /\ buffer[tail] # buffer[(tail + 1) % capacity]

\* C9: copyToArray writes exactly count elements, to dest[0..count-1], and dest[i] is
\* operator[](i) (converted, for the overload with convertFn) for every 0 <= i < count,
\* also when the live elements wrap round the end of the storage and when the buffer
\* is full.
C9_CopyToArray ==
    /\ op = "copyToArray" =>
          /\ Len(ret) = count
          /\ \A i \in 0..(count - 1) : ret[i + 1] = buffer[operatorIndex(i)]
    /\ op = "copyToArrayConvert" =>
          /\ Len(ret) = count
          /\ \A i \in 0..(count - 1) : ret[i + 1] = arg[buffer[operatorIndex(i)]]

\* copyToArray on a full buffer of capacity >= 3 whose elements wrap round the end of
\* the storage, with at least two of them after the wrap.
C9_Witness ==
    op = "copyToArray" /\ count = capacity /\ capacity >= 3 /\ head > tail /\ tail >= 1

\* C10: isFull() holds iff size() = S, isEmpty() holds iff size() = 0, and
\* available() + size() = S.
C10_Queries ==
    /\ isFull <=> size = capacity
    /\ isEmpty <=> size = 0
    /\ available + size = capacity

\* available() was called on a full buffer and returned 0.
C10_Witness == op = "available" /\ count = capacity /\ ret = 0


\* C11: clear leaves count = 0 (isEmpty() holds, size() = 0) with head and tail at
\* slot 0: head, tail and count are as in a default-constructed buffer.
C11_Clear ==
    op = "clear" =>
        /\ count = 0 /\ isEmpty /\ size = 0
        /\ head = 0 /\ tail = 0

\* clear was called on a full buffer of capacity >= 3.
C11_Witness == op = "clear" /\ pcount = capacity /\ capacity >= 3

\* C12: on an empty buffer, unshift(v) immediately followed by shift returns v, and
\* the buffer is empty afterwards.
C12_UnshiftShift ==
    [][op = "unshift" /\ pcount = 0 /\ op' = "shift" =>
        ret' = arg /\ isEmpty' /\ size' = 0]_vars

\* shift has followed an unshift into an empty buffer of capacity >= 3.
C12_Witness == paired /\ op = "shift" /\ pcount = 1 /\ capacity >= 3

\* C13: shiftNoReturn leaves head, tail and count as shift would from the same state,
\* and popNoReturn as pop would; on an empty buffer both leave them unchanged.
C13_NoReturn ==
    [][/\ op' = "shiftNoReturn" =>
            /\ <<head', tail', count'>> = <<shift.head, shift.tail, shift.count>>
            /\ count = 0 => UNCHANGED <<head, tail, count>>
       /\ op' = "popNoReturn" =>
            /\ <<head', tail', count'>> = <<pop.head, pop.tail, pop.count>>
            /\ count = 0 => UNCHANGED <<head, tail, count>>]_vars

\* shiftNoReturn on a buffer of at least two elements has moved head from the last
\* slot round to slot 0.
C13_Witness == op = "shiftNoReturn" /\ pcount >= 2 /\ head = 0 /\ capacity >= 3

\* C14, as claimed: whenever count = 0, head and tail point at the same slot.
C14_EmptyHeadIsTail == count = 0 => head = tail

\* C14, amended: whenever count = 0, head points at tail's slot or at the slot after
\* it (cyclically), which is where removing the last element leaves it.
C14_EmptyHeadAtOrAfterTail ==
    count = 0 => head = tail \/ head = (tail + 1) % capacity

\* shift has removed the only element, and head is one slot past tail.
C14_Witness ==
    op = "shift" /\ pcount = 1 /\ count = 0 /\ head # tail /\ head = (tail + 1) % capacity

\* C15: whenever count > 0, tail is slot (head + count - 1) mod S; so count = 1
\* implies head = tail, and count = S implies tail is the slot before head.
C15_TailFromHead ==
    count > 0 =>
        /\ tail = (head + count - 1) % capacity
        /\ count = 1 => head = tail
        /\ count = capacity => head = (tail + 1) % capacity

\* A full buffer of capacity >= 3 whose elements wrap round the end of the storage.
C15_Witness == count = capacity /\ capacity >= 3 /\ head > 0 /\ tail = head - 1

\* C16: after every call, 0 <= count <= S and head and tail are offsets in [0, S),
\* for every capacity S >= 1.
C16_InRange ==
    /\ count \in 0..capacity
    /\ head \in Slots
    /\ tail \in Slots

\* pop has removed the only element of a buffer of capacity 1: tail went below slot 0
\* and was put back to slot S - 1 = 0.
C16_Witness == capacity = 1 /\ op = "pop" /\ pcount = 1 /\ count = 0 /\ tail = 0

\* C17: after any sequence of calls from a default-constructed buffer, size() and
\* operator[](i) for every 0 <= i < size() are the length and the (i+1)-th element of
\* the bounded deque driven by the same calls.
C17_RefinesDeque ==
    /\ size = Len(deque)
    /\ \A i \in 0..(size - 1) : buffer[operatorIndex(i)] = deque[i + 1]

\* unshift into a full buffer of capacity >= 3 has dropped the newest element, and the
\* elements wrap round the end of the storage.
C17_Witness ==
    op = "unshift" /\ pcount = capacity /\ capacity >= 3 /\ head > tail /\ Len(deque) = capacity

\* C18: size, available, isEmpty, isFull, operator[] (index in range or not) and
\* copyToArray leave head, tail, count and every storage slot unchanged.
C18_QueriesChangeNothing ==
    [][op' \in {"size", "available", "isEmpty", "isFull", "operatorIndex",
                "copyToArray", "copyToArrayConvert"}
        => UNCHANGED object]_vars

\* operator[] was called with an index out of range on a buffer that is not empty.
C18_Witness == op = "operatorIndex" /\ arg > count /\ count > 0 /\ pcount = count

\* C19: push writes one storage slot, the new tail slot, and unshift one, the new head
\* slot: every other slot is unchanged; shift, pop, shiftNoReturn, popNoReturn and clear
\* change no storage slot.
C19_StorageFrame ==
    [][/\ op' = "push" =>
            /\ buffer'[tail'] = arg'
            /\ \A s \in Slots \ {tail'} : buffer'[s] = buffer[s]
       /\ op' = "unshift" =>
            /\ buffer'[head'] = arg'
            /\ \A s \in Slots \ {head'} : buffer'[s] = buffer[s]
       /\ op' \in {"shift", "pop", "shiftNoReturn", "popNoReturn", "clear"} =>
            buffer' = buffer]_vars

\* clear was called on a buffer of capacity >= 3 holding two different values.
C19_Witness ==
    op = "clear" /\ pcount >= 2 /\ capacity >= 3 /\ \E s, t \in Slots : buffer[s] # buffer[t]

\* C20: in a state that is not full, push(v) immediately followed by pop returns v and
\* restores size() and the logical contents; likewise unshift(v) followed by shift.
C20_InsertRemove ==
    [][/\ op = "push" /\ pcount < capacity /\ op' = "pop" =>
            ret' = arg /\ size' = pcount /\ Contents' = pcontents
       /\ op = "unshift" /\ pcount < capacity /\ op' = "shift" =>
            ret' = arg /\ size' = pcount /\ Contents' = pcontents]_vars

\* pop has followed a push into a buffer of capacity >= 3 that held an element and was
\* not full.
C20_Witness == paired /\ op = "pop" /\ pcount >= 2 /\ capacity >= 3

=============================================================================
